---- MODULE Spec2Model ----
(***************************************************************************)
(* Model of lib-src/seccomp-filter.c: the program that builds a libseccomp *)
(* filter context, adds the rule table of the Emacs sandbox and exports    *)
(* it as a BPF program and as a PFC listing.                               *)
(*                                                                         *)
(* Machine words are modelled as the set of their set bit positions, so    *)
(* that |, & and ~ are union, intersection and complement and a 32-bit     *)
(* value widened to the 64-bit scmp_datum_t keeps its exact bits.          *)
(***************************************************************************)
EXTENDS Integers, Sequences, FiniteSets, TLC

VARIABLES failing, pc, ip, argc, argv, ctx, handlers, registered, released,
          usedReleased, fd, files, status, stderr, attempts, eintr,
          outcome, call, verdict

vars == <<failing, pc, ip, argc, argv, ctx, handlers, registered, released,
          usedReleased, fd, files, status, stderr, attempts, eintr,
          outcome, call, verdict>>

(***************************************************************************)
(* Bounds of the model.                                                    *)
(***************************************************************************)
\* Argument registers of a checked invocation range over 0..MaxArgVal.
MaxArgVal == 6
\* Largest number of times a run is interrupted by a signal in open.
MaxEintr == 1
\* Largest argument count the program is started with.
MaxArgc == 4

(***************************************************************************)
(* Words.                                                                  *)
(***************************************************************************)
\* The bits of a non-negative number below 2^31.
Bits(n) == {i \in 0..30 : (n \div (2 ^ i)) % 2 = 1}

IntWidth == 32
DatumWidth == 64

\* ~x on an int.
Not(x) == (0..(IntWidth - 1)) \ x

\* (uint32_t) x, then widened to scmp_datum_t (zero extension).
U32(x) == x \cap (0..(IntWidth - 1))

\* An int converted to scmp_datum_t (sign extension to 64 bits).
Datum64(x) == IF (IntWidth - 1) \in x
              THEN x \cup (IntWidth..(DatumWidth - 1))
              ELSE x

(***************************************************************************)
(* Header constants the rule table uses (Linux, x86-64).                   *)
(***************************************************************************)
PROT_NONE == Bits(0)
PROT_READ == Bits(1)
PROT_WRITE == Bits(2)
PROT_EXEC == Bits(4)
MAP_SHARED == Bits(1)
MAP_PRIVATE == Bits(2)
MAP_FILE == Bits(0)
MAP_FIXED == Bits(16)
MAP_ANONYMOUS == Bits(32)
MAP_DENYWRITE == Bits(2048)
MAP_NORESERVE == Bits(16384)
MAP_STACK == Bits(131072)
O_RDONLY == Bits(0)
O_BINARY == Bits(0)
O_DIRECTORY == Bits(65536)
O_CLOEXEC == Bits(524288)
O_PATH == Bits(2097152)
FUTEX_WAKE_PRIVATE == Bits(129)
STDIN_FILENO == Bits(0)
TIOCGPGRP == Bits(21519)
F_GETFL == Bits(3)
CLOCK_REALTIME == Bits(0)
PR_SET_NAME == Bits(15)
CLONE_VM == Bits(256)
CLONE_FS == Bits(512)
CLONE_FILES == Bits(1024)
CLONE_SIGHAND == Bits(2048)
CLONE_THREAD == Bits(65536)
CLONE_SYSVSEM == Bits(262144)
CLONE_SETTLS == Bits(524288)
CLONE_PARENT_SETTID == Bits(1048576)
CLONE_CHILD_CLEARTID == Bits(2097152)
EPERM == 1
EACCES == 13
EINVAL == 22
EXIT_SUCCESS == 0
EXIT_FAILURE == 1

(***************************************************************************)
(* Actions and comparators of libseccomp.                                  *)
(***************************************************************************)
SCMP_ACT_ALLOW == [kind |-> "ALLOW", errno |-> 0]
SCMP_ACT_KILL_PROCESS == [kind |-> "KILL_PROCESS", errno |-> 0]
SCMP_ACT_ERRNO(e) == [kind |-> "ERRNO", errno |-> e]

\* SCMP_Ax_32 (op, a, b): both data are cast to uint32_t.
SCMP_A_32(i, op, a, b) ==
  [arg |-> i, op |-> op, datum_a |-> U32(a), datum_b |-> U32(b)]

\* SCMP_Ax_32 (op, a): the second datum of the compound literal is
\* zero-initialised.
SCMP_A_32_1(i, op, a) ==
  [arg |-> i, op |-> op, datum_a |-> U32(a), datum_b |-> {}]

\* SCMP_Ax_64 (op, a, b): the data are converted to scmp_datum_t.
SCMP_A_64(i, op, a, b) ==
  [arg |-> i, op |-> op, datum_a |-> Datum64(a), datum_b |-> Datum64(b)]

SCMP_A_64_1(i, op, a) ==
  [arg |-> i, op |-> op, datum_a |-> Datum64(a), datum_b |-> {}]

\* One comparator applied to the argument registers of an invocation.
CmpHolds(c, args) ==
  CASE c.op = "SCMP_CMP_EQ" -> args[c.arg] = c.datum_a
    [] c.op = "SCMP_CMP_NE" -> args[c.arg] # c.datum_a
    [] c.op = "SCMP_CMP_MASKED_EQ" -> (args[c.arg] \cap c.datum_a) = c.datum_b

\* Syscalls of the rule table that have no number on x86-64: SCMP_SYS
\* gives them a negative pseudo number, the rule add succeeds and the
\* generated program holds no rule for them.
NoNativeNumber ==
  {"stat64", "lstat64", "fstatat64", "fcntl64", "sigaction", "sigprocmask"}

\* The syscall is the rule's own and every comparator holds.
CmpsHold(r, c) ==
  /\ r.syscall = c.syscall
  /\ \A k \in 1..Len(r.cmps) : CmpHolds(r.cmps[k], c.args)

\* A rule of the generated program matches an invocation.
RuleMatches(r, c) ==
  /\ r.syscall \notin NoNativeNumber
  /\ CmpsHold(r, c)

MatchingRules(filter, c) ==
  {k \in 1..Len(filter.rules) : RuleMatches(filter.rules[k], c)}

\* The actions the filter may answer an invocation with: the action of a
\* matching rule, in no guaranteed order, or the default action.
Verdicts(filter, c) ==
  IF MatchingRules(filter, c) = {}
  THEN {filter.default}
  ELSE {filter.rules[k].action : k \in MatchingRules(filter, c)}

RULE(action, syscall, cmps) ==
  [action |-> action, syscall |-> syscall, cmps |-> cmps]

(***************************************************************************)
(* The rule table of main, in program order.                               *)
(***************************************************************************)
Allow(syscall) == RULE(SCMP_ACT_ALLOW, syscall, <<>>)

\* Mutation: the read/exec alternative also admits PROT_WRITE.
MmapRuleRXAdmitsWrite ==
  RULE(SCMP_ACT_ALLOW, "mmap",
       <<SCMP_A_32_1(2, "SCMP_CMP_MASKED_EQ",
                     Not(PROT_NONE \cup PROT_READ \cup PROT_WRITE
                         \cup PROT_EXEC)),
         SCMP_A_32(3, "SCMP_CMP_MASKED_EQ",
                   Not(MAP_PRIVATE \cup MAP_ANONYMOUS \cup MAP_FIXED
                       \cup MAP_DENYWRITE),
                   Bits(0))>>)

MmapRuleRW ==
  RULE(SCMP_ACT_ALLOW, "mmap",
       <<SCMP_A_32_1(2, "SCMP_CMP_MASKED_EQ",
                     Not(PROT_NONE \cup PROT_READ \cup PROT_WRITE)),
         SCMP_A_32(3, "SCMP_CMP_MASKED_EQ",
                   Not(MAP_PRIVATE \cup MAP_FILE \cup MAP_ANONYMOUS
                       \cup MAP_FIXED \cup MAP_DENYWRITE \cup MAP_STACK
                       \cup MAP_NORESERVE),
                   Bits(0))>>)

MmapRuleRX ==
  RULE(SCMP_ACT_ALLOW, "mmap",
       <<SCMP_A_32_1(2, "SCMP_CMP_MASKED_EQ",
                     Not(PROT_NONE \cup PROT_READ \cup PROT_EXEC)),
         SCMP_A_32(3, "SCMP_CMP_MASKED_EQ",
                   Not(MAP_PRIVATE \cup MAP_ANONYMOUS \cup MAP_FIXED
                       \cup MAP_DENYWRITE),
                   Bits(0))>>)

MprotectRule ==
  RULE(SCMP_ACT_ALLOW, "mprotect",
       <<SCMP_A_32(2, "SCMP_CMP_MASKED_EQ",
                   Not(PROT_NONE \cup PROT_READ \cup PROT_WRITE),
                   Bits(0))>>)

OpenFlagsMask ==
  Not(O_RDONLY \cup O_BINARY \cup O_CLOEXEC \cup O_PATH \cup O_DIRECTORY)

OpenRule ==
  RULE(SCMP_ACT_ALLOW, "open",
       <<SCMP_A_32(1, "SCMP_CMP_MASKED_EQ", OpenFlagsMask, Bits(0))>>)

OpenatRule ==
  RULE(SCMP_ACT_ALLOW, "openat",
       <<SCMP_A_32(2, "SCMP_CMP_MASKED_EQ", OpenFlagsMask, Bits(0))>>)

IoctlRule ==
  RULE(SCMP_ACT_ALLOW, "ioctl",
       <<SCMP_A_32_1(0, "SCMP_CMP_EQ", STDIN_FILENO),
         SCMP_A_32_1(1, "SCMP_CMP_EQ", TIOCGPGRP)>>)

\* Mutation: the allowing alternative does not look at new_limit.
PrlimitAllowRuleAnyLimit ==
  RULE(SCMP_ACT_ALLOW, "prlimit64",
       <<SCMP_A_32_1(0, "SCMP_CMP_EQ", Bits(0))>>)

PrlimitAllowRule ==
  RULE(SCMP_ACT_ALLOW, "prlimit64",
       <<SCMP_A_32_1(0, "SCMP_CMP_EQ", Bits(0)),
         SCMP_A_64_1(2, "SCMP_CMP_EQ", Bits(0))>>)

\* Mutation: a change of a resource limit kills instead of failing.
PrlimitDenyRuleKills ==
  RULE(SCMP_ACT_KILL_PROCESS, "prlimit64",
       <<SCMP_A_32_1(0, "SCMP_CMP_EQ", Bits(0)),
         SCMP_A_64_1(2, "SCMP_CMP_NE", Bits(0))>>)

PrlimitDenyRule ==
  RULE(SCMP_ACT_ERRNO(EPERM), "prlimit64",
       <<SCMP_A_32_1(0, "SCMP_CMP_EQ", Bits(0)),
         SCMP_A_64_1(2, "SCMP_CMP_NE", Bits(0))>>)

CloneRule ==
  RULE(SCMP_ACT_ALLOW, "clone",
       <<SCMP_A_64(0, "SCMP_CMP_MASKED_EQ",
                   Not(CLONE_VM \cup CLONE_FS \cup CLONE_FILES
                       \cup CLONE_SYSVSEM \cup CLONE_SIGHAND
                       \cup CLONE_THREAD \cup CLONE_SETTLS
                       \cup CLONE_PARENT_SETTID \cup CLONE_CHILD_CLEARTID),
                   Bits(0))>>)

SocketRule == RULE(SCMP_ACT_ERRNO(EACCES), "socket", <<>>)

RulesExitMemory ==
  <<Allow("exit"), Allow("exit_group"),
    MmapRuleRW, MmapRuleRX, Allow("munmap"), MprotectRule,
    RULE(SCMP_ACT_ALLOW, "futex",
         <<SCMP_A_32_1(1, "SCMP_CMP_EQ", FUTEX_WAKE_PRIVATE)>>),
    Allow("brk")>>

RulesStatusFiles ==
  <<Allow("uname"), Allow("getuid"), Allow("geteuid"), Allow("getpid"),
    Allow("getpgrp"),
    Allow("read"), Allow("write"), Allow("close"), Allow("lseek"),
    Allow("dup"), Allow("dup2"), Allow("fstat"),
    Allow("access"), Allow("faccessat"), Allow("stat"), Allow("stat64"),
    Allow("lstat"), Allow("lstat64"), Allow("fstatat64"),
    Allow("newfstatat"), Allow("readlink"), Allow("readlinkat"),
    Allow("getcwd"),
    OpenRule, OpenatRule, IoctlRule,
    RULE(SCMP_ACT_ALLOW, "fcntl",
         <<SCMP_A_32_1(1, "SCMP_CMP_EQ", F_GETFL)>>),
    RULE(SCMP_ACT_ALLOW, "fcntl64",
         <<SCMP_A_32_1(1, "SCMP_CMP_EQ", F_GETFL)>>),
    Allow("getrandom"), Allow("umask"), Allow("pipe"), Allow("pipe2")>>

RulesLimitsThreads ==
  <<Allow("getrlimit"), PrlimitAllowRule, PrlimitDenyRule,
    Allow("sigaction"), Allow("rt_sigaction"), Allow("sigprocmask"),
    Allow("rt_sigprocmask"),
    RULE(SCMP_ACT_ALLOW, "clock_gettime",
         <<SCMP_A_32_1(0, "SCMP_CMP_EQ", CLOCK_REALTIME)>>),
    Allow("time"), Allow("gettimeofday"),
    Allow("timer_create"), Allow("timerfd_create"),
    CloneRule, Allow("sigaltstack"), Allow("set_robust_list"),
    RULE(SCMP_ACT_ALLOW, "prctl",
         <<SCMP_A_32_1(0, "SCMP_CMP_EQ", PR_SET_NAME)>>),
    Allow("eventfd"), Allow("eventfd2"), Allow("wait4"), Allow("poll"),
    SocketRule>>

RuleTable == RulesExitMemory \o RulesStatusFiles \o RulesLimitsThreads

TableLen == Len(RuleTable)

(***************************************************************************)
(* Platform assumptions, checked by verify when the program is built.      *)
(***************************************************************************)
\* Mutation: the check of O_CREAT is missing.
VerifiedAssumptionsNoCreat ==
  {"CHAR_BIT", "int", "pointer", "NULL",
   "MAP_PRIVATE", "MAP_SHARED", "O_WRONLY", "O_RDWR"}

VerifiedAssumptions ==
  {"CHAR_BIT", "int", "pointer", "NULL",
   "MAP_PRIVATE", "MAP_SHARED", "O_WRONLY", "O_RDWR", "O_CREAT"}

PlatformAssumptions ==
  {"CHAR_BIT", "int", "pointer", "NULL",
   "MAP_PRIVATE", "MAP_SHARED", "O_WRONLY", "O_RDWR", "O_CREAT"}

\* verify (R) lets the build go on only when R holds on the platform.
verify(a) == a \notin failing

(***************************************************************************)
(* The statements of main, in order.                                       *)
(***************************************************************************)
Step(op, a) == [op |-> op, arg |-> a]

RuleSteps(rules) == [k \in 1..Len(rules) |-> Step("rule", rules[k])]

\* Mutation: the context is created with a default action of allow.
InitStepAllow == Step("seccomp_init", SCMP_ACT_ALLOW)

InitStep == Step("seccomp_init", SCMP_ACT_KILL_PROCESS)

Prologue == <<Step("argc", 3), InitStep, Step("atexit", "release_context")>>

AttributeSteps ==
  <<Step("attr", <<"SCMP_FLTATR_ACT_BADARCH", "SCMP_ACT_KILL_PROCESS">>),
    Step("attr", <<"SCMP_FLTATR_CTL_NNP", "1">>),
    Step("attr", <<"SCMP_FLTATR_CTL_TSYNC", "1">>)>>

\* EXPORT_FILTER (argv[n], function): the three calls of export_filter.
EXPORT_FILTER(n, function) ==
  <<Step("open", n), Step("export", function), Step("close", n)>>

\* Mutation: the socket rule is added between the two exports.
ProgramRuleBetweenExports ==
  Prologue \o AttributeSteps
    \o RuleSteps(SubSeq(RuleTable, 1, Len(RuleTable) - 1))
    \o EXPORT_FILTER(1, "seccomp_export_bpf")
    \o RuleSteps(<<SocketRule>>)
    \o EXPORT_FILTER(2, "seccomp_export_pfc")

Program ==
  Prologue \o AttributeSteps \o RuleSteps(RuleTable)
    \o EXPORT_FILTER(1, "seccomp_export_bpf")
    \o EXPORT_FILTER(2, "seccomp_export_pfc")

ProgLen == Len(Program)

\* The file names the two path arguments are taken from; the program
\* accepts any two strings, equal ones too.
Paths == {"out.bpf", "out.pfc"}

NoCtx == [default |-> SCMP_ACT_ALLOW, attrs |-> <<>>, rules |-> <<>>,
          live |-> FALSE]

NoFile == [opens |-> 0, state |-> "absent", filter |-> NoCtx,
           format |-> "", closed |-> FALSE]

NoCall == [syscall |-> "", args |-> <<>>]

NoVerdict == [kind |-> "", errno |-> 0]

\* Return values of the libseccomp calls: 0 or a negated errno.
LibStatus == {0, 0 - EINVAL}

\* Outcomes of open: a descriptor, an interruption by a signal, an error.
OpenResults == {"fd", "EINTR", "EACCES"}

\* What an export that returns 0 leaves in the file: the whole filter,
\* or less after a short or failed write the library does not report.
ExportedStates == {"complete", "partial"}

Init ==
  /\ failing \in SUBSET PlatformAssumptions
  /\ pc = "build"
  /\ ip = 0
  /\ argc = 0
  /\ argv = <<>>
  /\ ctx = NoCtx
  /\ handlers = <<>>
  /\ registered = 0
  /\ released = 0
  /\ usedReleased = FALSE
  /\ fd = ""
  /\ files = [p \in Paths |-> NoFile]
  /\ status = -1
  /\ stderr = <<>>
  /\ attempts = [k \in 1..ProgLen |-> 0]
  /\ eintr = [k \in 1..ProgLen |-> 0]
  /\ outcome = [k \in 1..ProgLen |-> "none"]
  /\ call = NoCall
  /\ verdict = NoVerdict

(***************************************************************************)
(* Helpers of the statements.                                              *)
(***************************************************************************)
Cur == Program[ip]

At(op) == pc = "run" /\ ip \in 1..ProgLen /\ Cur.op = op

Attempt == attempts' = [attempts EXCEPT ![ip] = @ + 1]

\* What the call of the current statement answered.
Outcome(o) == outcome' = [outcome EXCEPT ![ip] = o]

Advance == ip' = ip + 1 /\ UNCHANGED <<pc, status, stderr>>

UseCtx == usedReleased' = (usedReleased \/ released > 0)

\* Mutation: fail reports the error but exits with EXIT_SUCCESS.
failExitsSuccess(error, message) ==
  /\ stderr' = <<message, error>>
  /\ status' = EXIT_SUCCESS
  /\ pc' = "exiting"
  /\ UNCHANGED ip

\* fail (error, format, ...): print the message, flush, exit (EXIT_FAILURE).
fail(error, message) ==
  /\ stderr' = <<message, error>>
  /\ status' = EXIT_FAILURE
  /\ pc' = "exiting"
  /\ UNCHANGED ip

\* TEMP_FAILURE_RETRY (expression): the expression is evaluated again
\* as long as it fails with EINTR.
TEMP_FAILURE_RETRY(result) == result = "EINTR"

(***************************************************************************)
(* Building and starting the program.                                      *)
(***************************************************************************)
Build ==
  /\ pc = "build"
  /\ pc' = IF \A a \in VerifiedAssumptions : verify(a)
           THEN "built" ELSE "buildfail"
  /\ UNCHANGED <<failing, ip, argc, argv, ctx, handlers, registered,
                 released, usedReleased, fd, files, status, stderr,
                 attempts, eintr, outcome, call, verdict>>

\* The program is started with argc - 1 arguments; the two paths of a
\* well-formed command line are any two names.
Exec ==
  /\ pc = "built"
  /\ \E n \in 1..MaxArgc :
       /\ argc' = n
       /\ IF n = 3
          THEN \E p1 \in Paths, p2 \in Paths : argv' = <<p1, p2>>
          ELSE argv' = <<>>
  /\ pc' = "run"
  /\ ip' = 1
  /\ UNCHANGED <<failing, ctx, handlers, registered, released,
                 usedReleased, fd, files, status, stderr, attempts, eintr,
                 outcome, call, verdict>>

(***************************************************************************)
(* The statements of main.                                                 *)
(***************************************************************************)
CheckArgs ==
  /\ At("argc")
  /\ Attempt
  /\ IF argc # Cur.arg
     THEN fail(0, "usage") /\ Outcome("failed")
     ELSE Advance /\ Outcome("ok")
  /\ UNCHANGED <<failing, argc, argv, ctx, handlers, registered, released,
                 usedReleased, fd, files, eintr, call, verdict>>

SeccompInit ==
  /\ At("seccomp_init")
  /\ Attempt
  /\ \E ok \in BOOLEAN :
       IF ok
       THEN /\ ctx' = [default |-> Cur.arg, attrs |-> <<>>,
                       rules |-> <<>>, live |-> TRUE]
            /\ Outcome("ok")
            /\ Advance
       ELSE /\ fail(0, "seccomp_init")
            /\ Outcome("failed")
            /\ UNCHANGED ctx
  /\ UNCHANGED <<failing, argc, argv, handlers, registered, released,
                 usedReleased, fd, files, eintr, call, verdict>>

\* atexit (release_context): the result is not looked at, the run goes on
\* whether or not the handler was registered.
Atexit ==
  /\ At("atexit")
  /\ Attempt
  /\ \E ok \in BOOLEAN :
       IF ok
       THEN /\ handlers' = Append(handlers, Cur.arg)
            /\ registered' = registered + 1
            /\ Outcome("ok")
       ELSE /\ UNCHANGED <<handlers, registered>>
            /\ Outcome("failed")
  /\ Advance
  /\ UNCHANGED <<failing, argc, argv, ctx, released, usedReleased, fd,
                 files, eintr, call, verdict>>

\* Mutation: the status of seccomp_attr_set is not looked at.
set_attribute_unchecked(attr, value) ==
  /\ Attempt
  /\ UseCtx
  /\ \E st \in LibStatus :
       /\ ctx' = IF st < 0 THEN ctx
                 ELSE [ctx EXCEPT !.attrs = Append(@, <<attr, value>>)]
       /\ Outcome(IF st < 0 THEN "failed" ELSE "ok")
       /\ Advance

set_attribute(attr, value) ==
  /\ Attempt
  /\ UseCtx
  /\ \E st \in LibStatus :
       IF st < 0
       THEN /\ fail(0 - st, "seccomp_attr_set")
            /\ Outcome("failed")
            /\ UNCHANGED ctx
       ELSE /\ ctx' = [ctx EXCEPT !.attrs = Append(@, <<attr, value>>)]
            /\ Outcome("ok")
            /\ Advance

SetAttribute ==
  /\ At("attr")
  /\ set_attribute(Cur.arg[1], Cur.arg[2])
  /\ UNCHANGED <<failing, argc, argv, handlers, registered, released, fd,
                 files, eintr, call, verdict>>

RuleAdd ==
  /\ At("rule")
  /\ Attempt
  /\ UseCtx
  /\ \E st \in LibStatus :
       IF st < 0
       THEN /\ fail(0 - st, "seccomp_rule_add_array")
            /\ Outcome("failed")
            /\ UNCHANGED ctx
       ELSE /\ ctx' = [ctx EXCEPT !.rules = Append(@, Cur.arg)]
            /\ Outcome("ok")
            /\ Advance
  /\ UNCHANGED <<failing, argc, argv, handlers, registered, released, fd,
                 files, eintr, call, verdict>>

(***************************************************************************)
(* export_filter: open, export, close.                                     *)
(***************************************************************************)
\* The interruptions of the first n statements so far.
RECURSIVE Interruptions(_)
Interruptions(n) == IF n = 0 THEN 0 ELSE eintr[n] + Interruptions(n - 1)

\* open (file, O_WRONLY | O_CREAT | O_TRUNC ...): a successful open
\* creates the file or empties the one that is there.
Open ==
  /\ At("open")
  /\ Attempt
  /\ \E r \in OpenResults :
       IF TEMP_FAILURE_RETRY(r)
       THEN /\ attempts[ip] <= MaxEintr
            /\ r = "EINTR" => Interruptions(ProgLen) < MaxEintr
            /\ eintr' = IF r = "EINTR"
                        THEN [eintr EXCEPT ![ip] = @ + 1] ELSE eintr
            /\ UNCHANGED <<ip, pc, status, stderr, fd, files, outcome>>
       ELSE IF r = "fd"
       THEN /\ fd' = argv[Cur.arg]
            /\ files' = [files EXCEPT ![argv[Cur.arg]] =
                           [opens |-> @.opens + 1, state |-> "empty",
                            filter |-> NoCtx, format |-> "",
                            closed |-> FALSE]]
            /\ Outcome("ok")
            /\ Advance
            /\ UNCHANGED eintr
       ELSE /\ fail(EACCES, "open")
            /\ Outcome("failed")
            /\ UNCHANGED <<fd, files, eintr>>
  /\ UNCHANGED <<failing, argc, argv, ctx, handlers, registered, released,
                 usedReleased, call, verdict>>

\* function (ctx, fd): only the status is looked at; a status of 0 does
\* not tell that the whole filter reached the file.
Export ==
  /\ At("export")
  /\ Attempt
  /\ UseCtx
  /\ \E st \in LibStatus :
       IF st < 0
       THEN /\ fail(0 - st, Cur.arg)
            /\ Outcome("failed")
            /\ files' = [files EXCEPT ![fd].state = "partial"]
       ELSE /\ \E w \in ExportedStates :
                 files' = [files EXCEPT
                             ![fd].state = w,
                             ![fd].filter = IF w = "complete"
                                            THEN ctx ELSE NoCtx,
                             ![fd].format = Cur.arg]
            /\ Outcome("ok")
            /\ Advance
  /\ UNCHANGED <<failing, argc, argv, ctx, handlers, registered, released,
                 fd, eintr, call, verdict>>

Close ==
  /\ At("close")
  /\ Attempt
  /\ \E ok \in BOOLEAN :
       IF ok
       THEN /\ files' = [files EXCEPT ![fd].closed = TRUE]
            /\ fd' = ""
            /\ Outcome("ok")
            /\ Advance
       ELSE /\ fail(EINVAL, "close")
            /\ Outcome("failed")
            /\ UNCHANGED <<fd, files>>
  /\ UNCHANGED <<failing, argc, argv, ctx, handlers, registered, released,
                 usedReleased, eintr, call, verdict>>

(***************************************************************************)
(* Termination.                                                            *)
(***************************************************************************)
\* main runs off its end: the process exits with EXIT_SUCCESS.
Return ==
  /\ pc = "run"
  /\ ip = ProgLen + 1
  /\ status' = EXIT_SUCCESS
  /\ pc' = "exiting"
  /\ UNCHANGED <<failing, ip, argc, argv, ctx, handlers, registered,
                 released, usedReleased, fd, files, stderr, attempts,
                 eintr, outcome, call, verdict>>

\* exit calls the registered handlers, the last registered first.
release_context ==
  /\ pc = "exiting"
  /\ handlers # <<>>
  /\ released' = released + 1
  /\ handlers' = SubSeq(handlers, 1, Len(handlers) - 1)
  /\ UNCHANGED <<failing, pc, ip, argc, argv, ctx, registered,
                 usedReleased, fd, files, status, stderr, attempts, eintr,
                 outcome, call, verdict>>

Exited ==
  /\ pc = "exiting"
  /\ handlers = <<>>
  /\ pc' = "exited"
  /\ UNCHANGED <<failing, ip, argc, argv, ctx, handlers, registered,
                 released, usedReleased, fd, files, status, stderr,
                 attempts, eintr, outcome, call, verdict>>

(***************************************************************************)
(* The exported program installed in a sandboxed process and applied to    *)
(* one of its system calls.                                                *)
(***************************************************************************)
Syscalls == {RuleTable[k].syscall : k \in 1..Len(RuleTable)}
              \cup {"execve", "ptrace"}

ArgIndexes == 0..3

ArgValues == {Bits(n) : n \in 0..MaxArgVal}

Installed == files["out.bpf"].filter

\* A sandboxed process loads out.bpf after a run that reported success.
\* The generating process is gone by then: of its state only the files
\* are left.
Load ==
  /\ pc = "exited"
  /\ status = EXIT_SUCCESS
  /\ files["out.bpf"].state = "complete"
  /\ files["out.bpf"].format = "seccomp_export_bpf"
  /\ pc' = "sandbox"
  /\ ip' = 0
  /\ argc' = 0
  /\ argv' = <<>>
  /\ ctx' = NoCtx
  /\ registered' = 0
  /\ released' = 0
  /\ fd' = ""
  /\ status' = -1
  /\ attempts' = [k \in 1..ProgLen |-> 0]
  /\ eintr' = [k \in 1..ProgLen |-> 0]
  /\ outcome' = [k \in 1..ProgLen |-> "none"]
  /\ UNCHANGED <<failing, handlers, usedReleased, files, stderr, call,
                 verdict>>

Evaluate ==
  /\ pc = "sandbox"
  /\ call = NoCall
  /\ \E sc \in Syscalls, a \in [ArgIndexes -> ArgValues] :
       /\ call' = [syscall |-> sc, args |-> a]
       /\ verdict' \in Verdicts(Installed, [syscall |-> sc, args |-> a])
  /\ UNCHANGED <<failing, pc, ip, argc, argv, ctx, handlers, registered,
                 released, usedReleased, fd, files, status, stderr,
                 attempts, eintr, outcome>>

Next ==
  \/ Build
  \/ Exec
  \/ CheckArgs
  \/ SeccompInit
  \/ Atexit
  \/ SetAttribute
  \/ RuleAdd
  \/ Open
  \/ Export
  \/ Close
  \/ Return
  \/ release_context
  \/ Exited
  \/ Load
  \/ Evaluate

Spec == Init /\ [][Next]_vars

(***************************************************************************)
(* Properties.                                                             *)
(***************************************************************************)
Terminated == pc \in {"exiting", "exited"}

\* The generating process exists or has just exited.
Generating == pc # "sandbox"

OpenAttempted ==
  \E k \in 1..ProgLen : Program[k].op = "open" /\ attempts[k] > 0

Untouched == \A p \in Paths : files[p] = NoFile

ContextBuilt ==
  /\ argc = 3
  /\ ctx.live
  /\ ctx.attrs = <<<<"SCMP_FLTATR_ACT_BADARCH", "SCMP_ACT_KILL_PROCESS">>,
                   <<"SCMP_FLTATR_CTL_NNP", "1">>,
                   <<"SCMP_FLTATR_CTL_TSYNC", "1">>>>
  /\ Len(ctx.rules) = TableLen

\* The statements whose result main or its helpers look at.
Checked(k) == Program[k].op # "atexit"

StepsOk == \A k \in 1..ProgLen : Checked(k) => outcome[k] = "ok"

StepFailed == \E k \in 1..ProgLen : Checked(k) /\ outcome[k] = "failed"

\* The file of path argument n holds the whole artifact of that format.
Written(n, format) ==
  /\ argc = 3
  /\ files[argv[n]].state = "complete"
  /\ files[argv[n]].format = format
  /\ files[argv[n]].closed

Evaluated == call.syscall # ""

HasRule(sc) == \E k \in 1..Len(RuleTable) : RuleTable[k].syscall = sc

RulesFor(sc) == {k \in 1..Len(RuleTable) : RuleTable[k].syscall = sc}

\* C1: for every combination of step outcomes (argument count, context
\* creation, attribute sets, rule adds, open, export and close of both
\* files) the exit status is 0 exactly when every step succeeded; a
\* single failing step gives a non-zero status.
C1_ExitZeroIffStepsReportedSuccess ==
  Terminated =>
    /\ (status = 0) <=> StepsOk
    /\ StepFailed => status # 0

C1_Witness ==
  /\ pc = "exited"
  /\ status = 0
  /\ StepsOk
  /\ argv[1] # argv[2]
  /\ Written(1, "seccomp_export_bpf")
  /\ Written(2, "seccomp_export_pfc")

\* C2: an output file is opened only after the argument check, the context
\* creation, the three attribute sets and every rule add have succeeded;
\* a usage, context, attribute or rule failure leaves both paths untouched.
C2_NoOpenBeforeContextBuilt ==
  Generating =>
    /\ (OpenAttempted \/ ~Untouched) => ContextBuilt
    /\ (Terminated /\ stderr # <<>>
          /\ stderr[1] \in {"usage", "seccomp_init", "seccomp_attr_set",
                            "seccomp_rule_add_array"})
         => Untouched /\ ~OpenAttempted

C2_Witness ==
  /\ pc = "run"
  /\ ContextBuilt
  /\ files[argv[1]].opens = 1

\* C3: when a platform assumption is false the build aborts: no rule is
\* ever added to the rule table and no output file is ever opened.
C3_FalseAssumptionAbortsFirst ==
  failing # {} =>
    /\ pc \in {"build", "buildfail"}
    /\ ctx.rules = <<>>
    /\ Untouched
    /\ ~OpenAttempted

C3_Witness ==
  /\ pc = "buildfail"
  /\ "O_CREAT" \in failing

\* C4: the release of the context is registered once, when the context is
\* created; a terminated process has released its context exactly once,
\* and nothing uses the context after its release.
C4_ReleasedExactlyOnce ==
  /\ registered <= 1
  /\ registered = 1 => ctx.live
  /\ released <= 1
  /\ released = 1 => Terminated
  /\ ~usedReleased
  /\ (pc = "exited" /\ ctx.live) => released = 1
  /\ (pc = "exited" /\ ~ctx.live) => released = 0

\* C5: from the first open of the binary export on, the context (default
\* action, attributes, rule table) is never modified by the program, so
\* that both artifacts are produced from the same rule table.
C5_NoMutationOnceExportBegun ==
  [][(OpenAttempted /\ pc' # "sandbox") => ctx' = ctx]_vars

C5_Witness ==
  /\ pc = "exited"
  /\ \A p \in Paths : files[p].state = "complete"
  /\ files["out.bpf"].filter = files["out.pfc"].filter
  /\ files["out.bpf"].filter.rules = RuleTable
  /\ files["out.bpf"].format = "seccomp_export_bpf"
  /\ files["out.pfc"].format = "seccomp_export_pfc"

\* C6: an mmap whose protection has PROT_WRITE and PROT_EXEC matches no
\* rule and is answered with kill-process; an mprotect whose protection
\* has PROT_EXEC is never allowed.
C6_NoWritableExecutablePages ==
  /\ (call.syscall = "mmap"
        /\ (PROT_WRITE \cup PROT_EXEC) \subseteq call.args[2])
       => /\ MatchingRules(Installed, call) = {}
          /\ verdict = SCMP_ACT_KILL_PROCESS
  /\ (call.syscall = "mprotect" /\ PROT_EXEC \subseteq call.args[2])
       => verdict # SCMP_ACT_ALLOW

C6_Witness ==
  /\ call.syscall = "mmap"
  /\ (PROT_WRITE \cup PROT_EXEC) \subseteq call.args[2]
  /\ call.args[3] = MAP_PRIVATE
  /\ verdict = SCMP_ACT_KILL_PROCESS

\* C7: an invocation of a syscall without a rule, or one that satisfies
\* the comparators of none of its rules, is answered with kill-process.
C7_DefaultDeny ==
  (Evaluated
     /\ (~HasRule(call.syscall)
           \/ \A k \in RulesFor(call.syscall) :
                ~CmpsHold(RuleTable[k], call)))
    => verdict = SCMP_ACT_KILL_PROCESS

C7_Witness ==
  /\ call.syscall = "execve"
  /\ ~HasRule(call.syscall)
  /\ verdict = SCMP_ACT_KILL_PROCESS

\* C8: no step is retried; every step is attempted at most once in a run.
C8_NoStepAttemptedTwice ==
  \A k \in 1..ProgLen : attempts[k] <= 1

\* C9 as stated: every prlimit64 with a non-zero new_limit is answered
\* with EPERM whatever its other arguments, and every socket with EACCES.
C9_LimitChangeAlwaysEperm ==
  /\ (call.syscall = "prlimit64" /\ call.args[2] # {})
       => verdict = SCMP_ACT_ERRNO(EPERM)
  /\ call.syscall = "socket" => verdict = SCMP_ACT_ERRNO(EACCES)

\* C9 as amended: a prlimit64 on the current process (argument 0 equal
\* to 0) with a non-zero new_limit is answered with EPERM, and every
\* socket with EACCES; neither is allowed nor killed.
C9_OwnLimitChangeEperm ==
  /\ (call.syscall = "prlimit64" /\ call.args[0] = {}
        /\ call.args[2] # {})
       => verdict = SCMP_ACT_ERRNO(EPERM)
  /\ call.syscall = "socket" => verdict = SCMP_ACT_ERRNO(EACCES)

C9_Witness ==
  /\ call.syscall = "prlimit64"
  /\ call.args[0] = {}
  /\ call.args[2] # {}
  /\ call.args[1] # {}
  /\ verdict = SCMP_ACT_ERRNO(EPERM)

\* C10: for a syscall with several rules, all rules an invocation matches
\* carry the same action.
C10_AlternativesAgree ==
  (Evaluated /\ Cardinality(RulesFor(call.syscall)) > 1) =>
    \A j, k \in MatchingRules(Installed, call) :
      Installed.rules[j].action = Installed.rules[k].action

C10_Witness ==
  /\ call.syscall = "mmap"
  /\ Cardinality(MatchingRules(Installed, call)) = 2
  /\ verdict = SCMP_ACT_ALLOW

====
